---------------------------- MODULE Spec2Model ----------------------------
(***************************************************************************)
(* A model of magba's source layer: CylinderMagnet, SourceCollection and   *)
(* MultiSourceCollection (src/src/sources), the Transform operations       *)
(* (src/src/geometry/transform.rs), the local/global frame mapping         *)
(* (src/src/geometry/coordinate.rs) and the cylinder field entry points    *)
(* (src/src/fields/field_cylinder.rs).                                     *)
(*                                                                         *)
(* Arithmetic is exact.  Points and vectors are integer triples.  A unit   *)
(* quaternion is one of the 24 elements of the binary tetrahedral group,   *)
(* written with doubled components <<w, x, y, z>> (w^2+x^2+y^2+z^2 = 4),   *)
(* so that the Hamilton product, the inverse and the rotation of a vector  *)
(* are computed as nalgebra computes them and stay on the integer lattice. *)
(* Floating-point rounding is not modelled.                                *)
(***************************************************************************)
EXTENDS Integers, Sequences, FiniteSets, TLC

VARIABLES src, op, result

vars == <<src, op, result>>

(***************************************************************************)
(* Bounds of the model.                                                    *)
(***************************************************************************)
\* every position of a source stays within [-MaxCoord, MaxCoord]^3
MaxCoord == 1

\* the longest list of observation points handed to get_B
MaxPoints == 2

\* the most children a collection is constructed with
MaxChildren == 2

(***************************************************************************)
(* nalgebra: Vector3 / Point3 / Translation3 / UnitQuaternion              *)
(***************************************************************************)
VAdd(a, b) == <<a[1] + b[1], a[2] + b[2], a[3] + b[3]>>

VSub(a, b) == <<a[1] - b[1], a[2] - b[2], a[3] - b[3]>>

VNeg(a) == <<-a[1], -a[2], -a[3]>>

VZero == <<0, 0, 0>>

\* Hamilton product of two quaternions, components not yet halved
Hamilton(a, b) ==
    << a[1]*b[1] - a[2]*b[2] - a[3]*b[3] - a[4]*b[4],
       a[1]*b[2] + a[2]*b[1] + a[3]*b[4] - a[4]*b[3],
       a[1]*b[3] - a[2]*b[4] + a[3]*b[1] + a[4]*b[2],
       a[1]*b[4] + a[2]*b[3] - a[3]*b[2] + a[4]*b[1] >>

\* UnitQuaternion * UnitQuaternion (doubled components: the product of two
\* doubled quaternions is four times the true product)
QMul(a, b) ==
    LET h == Hamilton(a, b)
    IN  <<h[1] \div 2, h[2] \div 2, h[3] \div 2, h[4] \div 2>>

\* UnitQuaternion::inverse: the conjugate
QInv(a) == <<a[1], -a[2], -a[3], -a[4]>>

\* UnitQuaternion::identity
QId == <<2, 0, 0, 0>>

\* UnitQuaternion * Vector3 (and * Point3): q v q^-1
QRot(q, v) ==
    LET h == Hamilton(Hamilton(q, <<0, v[1], v[2], v[3]>>), QInv(q))
    IN  <<h[2] \div 4, h[3] \div 4, h[4] \div 4>>

\* the unit quaternions of the model: the binary tetrahedral group
Quats ==
    { q \in (-2..2) \X (-2..2) \X (-2..2) \X (-2..2) :
        q[1]*q[1] + q[2]*q[2] + q[3]*q[3] + q[4]*q[4] = 4 }

\* rotation by 120 degrees about (1,1,1): x -> y -> z -> x
QCyc == <<1, 1, 1, 1>>

\* rotation by 180 degrees about the x axis
QFlipX == <<0, 2, 0, 0>>

\* rotation by 180 degrees about the z axis
QFlipZ == <<0, 0, 0, 2>>

(***************************************************************************)
(* Sources.  A source is a record:                                         *)
(*   [type |-> "CylinderMagnet", position, orientation, polarization,      *)
(*    radius, height]                                                      *)
(*   [type |-> "SourceCollection" or "MultiSourceCollection", position,    *)
(*    orientation, children]   (children: a sequence of sources)           *)
(***************************************************************************)
\* CylinderMagnet::new
CylinderMagnet_new(position, orientation, polarization, radius, height) ==
    [type |-> "CylinderMagnet", position |-> position,
     orientation |-> orientation, polarization |-> polarization,
     radius |-> radius, height |-> height]

\* SourceCollection::new: the sources are stored as given
SourceCollection_new(position, orientation, sources) ==
    [type |-> "SourceCollection", position |-> position,
     orientation |-> orientation, children |-> sources]

\* MultiSourceCollection::new
MultiSourceCollection_new(position, orientation, sources) ==
    [type |-> "MultiSourceCollection", position |-> position,
     orientation |-> orientation, children |-> sources]

\* impl_default!: origin, identity, no children
SourceCollection_default == SourceCollection_new(VZero, QId, <<>>)

\* SourceCollection::add: push at the end
add(s, source) == [s EXCEPT !.children = Append(@, source)]

IsMagnet(s) == s.type = "CylinderMagnet"

IsCollection(s) == s.type \in {"SourceCollection", "MultiSourceCollection"}

\* Translation3::transform_point
transform_point(translation, point) == VAdd(point, translation)

\* Translation3::inverse
translation_inverse(translation) == VNeg(translation)

\* the pose a rotation about an anchor gives: <<position, orientation>>
rotate_anchor_pose(position, orientation, rotation, anchor) ==
    LET local_position == VSub(position, anchor)
    IN  << VAdd(QRot(rotation, local_position), anchor),
           QMul(rotation, orientation) >>

(***************************************************************************)
(* impl_transform!: shallow Transform of an object with no children        *)
(***************************************************************************)
magnet_set_position(s, position) == [s EXCEPT !.position = position]

magnet_set_orientation(s, orientation) == [s EXCEPT !.orientation = orientation]

\* a translate that takes the translation for the new position
magnet_translate_as_set(s, translation) ==
    [s EXCEPT !.position = translation]

magnet_translate(s, translation) ==
    [s EXCEPT !.position = transform_point(translation, s.position)]

\* a rotate that turns the magnet about the origin, position included
magnet_rotate_about_origin(s, rotation) ==
    [s EXCEPT !.position = QRot(rotation, s.position),
              !.orientation = QMul(rotation, s.orientation)]

magnet_rotate(s, rotation) ==
    [s EXCEPT !.orientation = QMul(rotation, s.orientation)]

\* rotate_about of a leaf: the leaf mutates its own pose fields
magnet_rotate_anchor(s, rotation, anchor) ==
    LET p == rotate_anchor_pose(s.position, s.orientation, rotation, anchor)
    IN  [s EXCEPT !.position = p[1], !.orientation = p[2]]

(***************************************************************************)
(* impl_transform_collection!: deep Transform of an object with children.  *)
(* par_iter_mut().for_each gives each child exclusive access to itself and *)
(* the closure reads only the arguments and self.position, which is        *)
(* written after the loop: the loop is the map of the children.            *)
(***************************************************************************)
RECURSIVE translate(_, _)
RECURSIVE rotate_anchor(_, _, _)

\* a translate that moves the children and leaves the collection's own
\* position behind
collection_translate_children_only(s, translation) ==
    [s EXCEPT
       !.children = [i \in 1..Len(s.children) |->
                        translate(s.children[i], translation)]]

collection_translate(s, translation) ==
    [s EXCEPT
       !.children = [i \in 1..Len(s.children) |->
                        translate(s.children[i], translation)],
       !.position = transform_point(translation, s.position)]

\* a rotate_anchor that moves the collection and leaves its children behind
collection_rotate_anchor_shallow(s, rotation, anchor) ==
    LET p == rotate_anchor_pose(s.position, s.orientation, rotation, anchor)
    IN  [s EXCEPT !.position = p[1], !.orientation = p[2]]

\* a rotate_anchor that turns the children about the collection's position
\* instead of the anchor
collection_rotate_anchor_about_self(s, rotation, anchor) ==
    LET p == rotate_anchor_pose(s.position, s.orientation, rotation, anchor)
    IN  [s EXCEPT
           !.children = [i \in 1..Len(s.children) |->
                            rotate_anchor(s.children[i], rotation, s.position)],
           !.position = p[1],
           !.orientation = p[2]]

collection_rotate_anchor(s, rotation, anchor) ==
    LET p == rotate_anchor_pose(s.position, s.orientation, rotation, anchor)
    IN  [s EXCEPT
           !.children = [i \in 1..Len(s.children) |->
                            rotate_anchor(s.children[i], rotation, anchor)],
           !.position = p[1],
           !.orientation = p[2]]

\* Transform::translate, dispatched on the type of the source
translate(s, translation) ==
    IF IsMagnet(s) THEN magnet_translate(s, translation)
                   ELSE collection_translate(s, translation)

\* Transform::rotate_anchor, dispatched on the type of the source
rotate_anchor(s, rotation, anchor) ==
    IF IsMagnet(s) THEN magnet_rotate_anchor(s, rotation, anchor)
                   ELSE collection_rotate_anchor(s, rotation, anchor)

\* a set_position that moves the collection and leaves its children behind
collection_set_position_shallow(s, position) ==
    [s EXCEPT !.position = position]

collection_set_position(s, position) ==
    LET translation == VSub(position, s.position)
    IN  [s EXCEPT
           !.children = [i \in 1..Len(s.children) |->
                            translate(s.children[i], translation)],
           !.position = position]

collection_set_orientation(s, orientation) ==
    LET rotation == QMul(orientation, QInv(s.orientation))
    IN  [s EXCEPT
           !.children = [i \in 1..Len(s.children) |->
                            rotate_anchor(s.children[i], rotation, s.position)],
           !.orientation = orientation]

\* a rotate that turns the children about the origin, not about the
\* collection's position
collection_rotate_about_origin(s, rotation) ==
    [s EXCEPT
       !.children = [i \in 1..Len(s.children) |->
                        rotate_anchor(s.children[i], rotation, VZero)],
       !.orientation = QMul(rotation, s.orientation)]

collection_rotate(s, rotation) ==
    [s EXCEPT
       !.children = [i \in 1..Len(s.children) |->
                        rotate_anchor(s.children[i], rotation, s.position)],
       !.orientation = QMul(rotation, s.orientation)]

\* Transform::rotate
rotate(s, rotation) ==
    IF IsMagnet(s) THEN magnet_rotate(s, rotation)
                   ELSE collection_rotate(s, rotation)

\* Transform::set_position
set_position(s, position) ==
    IF IsMagnet(s) THEN magnet_set_position(s, position)
                   ELSE collection_set_position(s, position)

\* Transform::set_orientation
set_orientation(s, orientation) ==
    IF IsMagnet(s) THEN magnet_set_orientation(s, orientation)
                   ELSE collection_set_orientation(s, orientation)

\* Transform::position
position(s) == s.position

\* Transform::orientation
orientation(s) == s.orientation

(***************************************************************************)
(* geometry/coordinate.rs.  Angles are whole quarter turns: the model      *)
(* evaluates cart2cyl on pairs (x, y) with x = 0 or y = 0, where           *)
(* sqrt(x^2 + y^2) = |x| + |y| and atan2(y, x) is a multiple of pi/2.      *)
(***************************************************************************)
Abs(x) == IF x < 0 THEN -x ELSE x

OnAxis(x, y) == x = 0 \/ y = 0

\* cos and sin of k quarter turns
CosQ(k) == CASE k % 4 = 0 -> 1 [] k % 4 = 2 -> -1 [] OTHER -> 0

SinQ(k) == CASE k % 4 = 1 -> 1 [] k % 4 = 3 -> -1 [] OTHER -> 0

\* cart2cyl: <<r, phi>>, phi = atan2(y, x) in quarter turns, in (-2, 2]
cart2cyl(x, y) ==
    LET r == Abs(x) + Abs(y)
        phi == CASE y > 0 -> 1
                 [] y < 0 -> -1
                 [] x < 0 -> 2
                 [] OTHER -> 0
    IN  <<r, phi>>

\* vec_cyl2cart: <<x, y>>
vec_cyl2cart(r, phi, theta) ==
    << r * CosQ(theta) - phi * SinQ(theta),
       r * SinQ(theta) + phi * CosQ(theta) >>

\* a local_point that turns with the orientation, not against it
local_point_forward(point, position_, orientation_) ==
    QRot(orientation_, VSub(point, position_))

\* local_point: orientation.inverse() * (point - position)
local_point(point, position_, orientation_) ==
    QRot(QInv(orientation_), VSub(point, position_))

local_points(points, position_, orientation_) ==
    [i \in 1..Len(points) |-> local_point(points[i], position_, orientation_)]

\* global_vector: orientation * vector
global_vector(vector, orientation_) == QRot(orientation_, vector)

global_vectors(local_vectors, orientation_) ==
    [i \in 1..Len(local_vectors) |-> global_vector(local_vectors[i], orientation_)]

(***************************************************************************)
(* Results.  A Rust call returns Ok(value) or Err(message), or it panics.  *)
(***************************************************************************)
Ok(v) == [kind |-> "Ok", val |-> v]

Err(m) == [kind |-> "Err", val |-> m]

Panic(m) == [kind |-> "Panic", val |-> m]

IsOk(x) == x.kind = "Ok"

\* Result::expect / Result::unwrap: the value, or a panic
expect(x, m) == IF x.kind = "Err" THEN Panic(m) ELSE x

(***************************************************************************)
(* fields/field_cylinder.rs.  The solvers work on r' = r/radius,           *)
(* z' = z/radius and z0 = (height/2)/radius; the model carries the three   *)
(* as numerators over the common denominator den = 2*radius.  The value of *)
(* an elliptic-integral expression is represented by an integer that is a  *)
(* fixed function of the same arguments (Magnitude); the branches, the     *)
(* trigonometric factors, the error results and the arithmetic around the  *)
(* expressions are the code's.                                             *)
(***************************************************************************)
\* an eighth-resolution reading of the dimensionless num/den
Eighths(num, den) == (8 * num) \div den

\* the stand-in for the k-th solver expression at (r', z', z0)
Magnitude(k, r, z, z0, den) ==
    k + 2 * Eighths(r, den) + 3 * Eighths(z, den) + 5 * Eighths(z0, den)

\* a cel that takes every kc
cel_never_fails(kc2) == FALSE

\* cel: an error when kc is zero (kc2 is the numerator of kc^2)
cel_fails(kc2) == kc2 = 0

unit_axial_cyl_B_cyl(r, z, z0, den) ==
    LET zp == z + z0
        zm == z - z0
        rm == den - r
        kp2 == zp * zp + rm * rm
        km2 == zm * zm + rm * rm
    IN  IF cel_fails(kp2) \/ cel_fails(km2)
        THEN Err("fn cel: kc cannot be zero.")
        ELSE Ok(<< Magnitude(1, r, z, z0, den), 0, Magnitude(2, r, z, z0, den) >>)

\* a test that takes r' = 0.05 for small as well
small_radius_inclusive(r, den) == 20 * r <= den

\* the r < 5e-2 test of the diametric solver
small_radius(r, den) == 20 * r < den

unit_diametric_cyl_B_cyl(r, phi, z, z0, den) ==
    IF small_radius(r, den)
    THEN \* Taylor series approximation for small r
         Ok(<< -CosQ(phi) * Magnitude(3, r, z, z0, den),
               SinQ(phi) * Magnitude(4, r, z, z0, den),
               -CosQ(phi) * Magnitude(5, r, z, z0, den) >>)
    ELSE \* general case; cel is called with kc = sqrt(1 - argp) >= 1
         LET rm == r - den
             one_over_rm == IF rm = 0 THEN 0 ELSE 1
         IN  Ok(<< -CosQ(phi) * (Magnitude(6, r, z, z0, den)
                                   + one_over_rm * Magnitude(7, r, z, z0, den)),
                   SinQ(phi) * Magnitude(8, r, z, z0, den),
                   -CosQ(phi) * Magnitude(9, r, z, z0, den) >>)

\* util::is_close(a, b, 1e-15) on ratios of small integers with one
\* denominator: a difference within 1e-15 * |b| is no difference
is_close(a, b) == a = b

VScale(k, v) == <<k * v[1], k * v[2], k * v[3]>>

cyl_B_cyl(r, phi, z, radius, height, pol_r, pol_z) ==
    LET den == 2 * radius
        rn == 2 * r
        zn == 2 * z
        z0 == height
        axial == IF pol_z /= 0
                 THEN expect(unit_axial_cyl_B_cyl(rn, zn, z0, den),
                             "fn cyl_b_cyl: cannot compute axial B.")
                 ELSE Ok(VZero)
        diametric == IF pol_r /= 0
                     THEN expect(unit_diametric_cyl_B_cyl(rn, phi, zn, z0, den),
                                 "fn cyl_b_cyl: cannot compute diametric B.")
                     ELSE Ok(VZero)
    IN  IF is_close(rn, den) /\ is_close(Abs(zn), z0)
        THEN Ok(VZero)
        ELSE IF ~IsOk(axial) THEN axial
        ELSE IF ~IsOk(diametric) THEN diametric
        ELSE Ok(VAdd(VScale(pol_z, axial.val), VScale(pol_r, diametric.val)))

\* a local_cyl_B that takes the surface of the magnet for its outside
local_cyl_B_strict(point, radius, height, pol) ==
    LET rphi == cart2cyl(point[1], point[2])
        r == rphi[1]
        phi == rphi[2]
        pt == cart2cyl(pol[1], pol[2])
        b_cyl == cyl_B_cyl(r, phi - pt[2], point[3], radius, height, pt[1], pol[3])
        bxy == vec_cyl2cart(b_cyl.val[1], b_cyl.val[2], phi)
    IN  IF ~IsOk(b_cyl) THEN b_cyl
        ELSE IF r < radius /\ 2 * Abs(point[3]) < height
        THEN Ok(<<bxy[1] + pol[1], bxy[2] + pol[2], b_cyl.val[3]>>)
        ELSE Ok(<<bxy[1], bxy[2], b_cyl.val[3]>>)

local_cyl_B(point, radius, height, pol) ==
    LET rphi == cart2cyl(point[1], point[2])
        r == rphi[1]
        phi == rphi[2]
        pt == cart2cyl(pol[1], pol[2])
        pol_r == pt[1]
        theta == pt[2]
        b_cyl == cyl_B_cyl(r, phi - theta, point[3], radius, height, pol_r, pol[3])
        bxy == vec_cyl2cart(b_cyl.val[1], b_cyl.val[2], phi)
    IN  IF ~IsOk(b_cyl) THEN b_cyl
        ELSE IF r <= radius /\ 2 * Abs(point[3]) <= height
        THEN Ok(<<bxy[1] + pol[1], bxy[2] + pol[2], b_cyl.val[3]>>)
        ELSE Ok(<<bxy[1], bxy[2], b_cyl.val[3]>>)

\* the first result of a sequence of results that is not Ok, if any
FirstNotOk(rs) ==
    LET bad == {i \in 1..Len(rs) : ~IsOk(rs[i])}
    IN  rs[CHOOSE i \in bad : \A j \in bad : i <= j]

AllOk(rs) == \A i \in 1..Len(rs) : IsOk(rs[i])

\* local_cyl_B_vec: the map of local_cyl_B(..).unwrap() over the points, on
\* the sequential and on the parallel path alike
local_cyl_B_vec(points, radius, height, pol) ==
    LET rs == [i \in 1..Len(points) |->
                  expect(local_cyl_B(points[i], radius, height, pol),
                         "called Result::unwrap() on an Err value")]
    IN  IF AllOk(rs) THEN Ok([i \in 1..Len(points) |-> rs[i].val])
                     ELSE FirstNotOk(rs)

\* a cyl_B that maps the field vectors to the global frame like points:
\* rotated, then moved by the position
cyl_B_translating(points, position_, orientation_, radius, height, pol) ==
    LET local == local_cyl_B_vec(local_points(points, position_, orientation_),
                                 radius, height, pol)
        turned == global_vectors(local.val, orientation_)
    IN  IF ~IsOk(local) THEN local
        ELSE Ok([i \in 1..Len(turned) |-> VAdd(turned[i], position_)])

\* cyl_B: compute_in_local!(local_cyl_B_vec, ...)
cyl_B(points, position_, orientation_, radius, height, pol) ==
    LET local == local_cyl_B_vec(local_points(points, position_, orientation_),
                                 radius, height, pol)
    IN  IF ~IsOk(local) THEN local
        ELSE Ok(global_vectors(local.val, orientation_))

(***************************************************************************)
(* sources: Field::get_B                                                   *)
(***************************************************************************)
\* impl Field for CylinderMagnet
magnet_get_B(s, points) ==
    cyl_B(points, s.position, s.orientation, s.radius, s.height, s.polarization)

RECURSIVE VSumSkipFirst(_, _, _)
\* a sum that starts at the second field
VSumSkipFirst(b_fields, i, n) ==
    IF n <= 1 THEN VZero
    ELSE VAdd(VSumSkipFirst(b_fields, i, n - 1), b_fields[n][i])

RECURSIVE VSum(_, _, _)
\* b_fields.iter().map(|vector| vector[i]).sum(): the sum of entry i of the
\* first n fields, in child order
VSum(b_fields, i, n) ==
    IF n = 0 THEN VZero
    ELSE VAdd(VSum(b_fields, i, n - 1), b_fields[n][i])

RECURSIVE get_B(_, _)

\* a collect that leaves the failed children out and sums the others
collect_and_sum_skipping(rs, points) ==
    LET n == Len(rs)
        b_fields == [k \in 1..n |->
                        IF IsOk(rs[k]) THEN rs[k].val
                        ELSE [i \in 1..Len(points) |-> VZero]]
    IN  {Ok([i \in 1..Len(points) |-> VSum(b_fields, i, n)])}

\* impl_field_collection!.  par_iter evaluates the children in any order and
\* collect::<Result<Vec<_>, _>> keeps the results in child order, or gives
\* up with the failure of one child: whichever the scheduling reaches first.
\* rs holds one outcome per child; the value is the set of outcomes of the
\* collection.
collect_and_sum(rs, points) ==
    LET n == Len(rs)
        bad == {k \in 1..n : ~IsOk(rs[k])}
        b_fields == [k \in 1..n |-> rs[k].val]
    IN  IF bad /= {} THEN {rs[k] : k \in bad}
        ELSE {Ok([i \in 1..Len(points) |-> VSum(b_fields, i, n)])}

\* a get_B that takes the children's poses as relative to the collection:
\* the points go to the collection's frame and the fields come back from it
collection_get_B_in_frame(s, points) ==
    LET n == Len(s.children)
        inner == local_points(points, s.position, s.orientation)
        outs == [k \in 1..n |-> get_B(s.children[k], inner)]
        all == UNION {outs[k] : k \in 1..n}
        runs == {rs \in [1..n -> all] : \A k \in 1..n : rs[k] \in outs[k]}
        Back(o) == IF IsOk(o) THEN Ok(global_vectors(o.val, s.orientation)) ELSE o
    IN  UNION {{Back(o) : o \in collect_and_sum(rs, points)} : rs \in runs}

collection_get_B(s, points) ==
    LET n == Len(s.children)
        outs == [k \in 1..n |-> get_B(s.children[k], points)]
        all == UNION {outs[k] : k \in 1..n}
        runs == {rs \in [1..n -> all] : \A k \in 1..n : rs[k] \in outs[k]}
    IN  UNION {collect_and_sum(rs, points) : rs \in runs}

\* Field::get_B, dispatched on the type of the source: the set of outcomes
\* the call has under the schedulings of the parallel evaluations
get_B(s, points) ==
    IF IsMagnet(s) THEN {magnet_get_B(s, points)}
                   ELSE collection_get_B(s, points)

(***************************************************************************)
(* The sources and the inputs of the model.                                *)
(***************************************************************************)
RECURSIVE Magnets(_)
\* the magnets of a source: itself, or its descendants, in order
Magnets(s) ==
    IF IsMagnet(s) THEN <<s>>
    ELSE LET F[k \in 0..Len(s.children)] ==
                 IF k = 0 THEN <<>> ELSE F[k - 1] \o Magnets(s.children[k])
         IN  F[Len(s.children)]

RECURSIVE Positions(_)
\* every position stored in a source
Positions(s) ==
    IF IsMagnet(s) THEN {s.position}
    ELSE {s.position} \cup UNION {Positions(s.children[k]) : k \in 1..Len(s.children)}

InBounds(s) ==
    \A p \in Positions(s) : \A i \in 1..3 : Abs(p[i]) <= MaxCoord

\* the magnets the sources are built from; the third has a negative height,
\* which CylinderMagnet::new stores like any other
MagnetPool ==
    << CylinderMagnet_new(<<1, 0, 0>>, QId, <<1, 0, 1>>, 1, 2),
       CylinderMagnet_new(<<0, -1, 0>>, QCyc, <<0, 2, 0>>, 1, 2),
       CylinderMagnet_new(<<0, 0, 0>>, QId, <<0, 0, 1>>, 1, -2) >>

\* the runs of at most n consecutive elements of a sequence
Runs(seq, n) ==
    { [k \in 1..w[2] |-> seq[w[1] + k - 1]] :
        w \in { v \in (1..Len(seq)) \X (0..n) : v[1] + v[2] - 1 <= Len(seq) } }

ChildLists == Runs(MagnetPool, MaxChildren)

InitSources ==
    { MagnetPool[i] : i \in 1..Len(MagnetPool) }
    \cup { SourceCollection_new(VZero, QId, kids) : kids \in ChildLists }
    \cup { SourceCollection_new(<<0, 0, 1>>, QFlipZ, <<MagnetPool[1]>>),
           MultiSourceCollection_new(VZero, QId,
             << MagnetPool[2],
                SourceCollection_new(<<0, 1, 0>>, QCyc, <<MagnetPool[1]>>) >>),
           add(add(SourceCollection_default, MagnetPool[1]), MagnetPool[2]) }

Translations == { <<1, 0, 0>>, <<-1, 0, 0>> }

Rotations == { QCyc, QInv(QCyc) }

Anchors == { <<1, 0, 0>> }

NewPositions == { VZero, <<0, 1, 0>> }

NewOrientations == { QId, QCyc }

\* the observation points, and the lists of them handed to get_B
AllPoints == << <<2, 0, 1>>, <<1, 0, 0>>, <<0, 0, 1>>, <<0, -1, 3>> >>

PointLists == Runs(AllPoints, MaxPoints)

\* the points the model can evaluate a magnet at: the local point lies on
\* the x or the y axis of the magnet's frame, or on its z axis, and the
\* general branch of the diametric solver gets finite arguments
Evaluable(m, point) ==
    LET lp == local_point(point, m.position, m.orientation)
        rn == 2 * (Abs(lp[1]) + Abs(lp[2]))
        zn == 2 * lp[3]
        den == 2 * m.radius
        rim == rn = den /\ Abs(zn) = m.height
        diam == (m.polarization[1] /= 0 \/ m.polarization[2] /= 0)
                /\ ~rim /\ ~small_radius(rn, den)
    IN  /\ OnAxis(lp[1], lp[2])
        /\ diam => /\ (zn + m.height) * (zn + m.height) + (rn - den) * (rn - den) /= 0
                   /\ (zn - m.height) * (zn - m.height) + (rn - den) * (rn - den) /= 0

EvaluableAt(s, points) ==
    LET ms == Magnets(s)
    IN  \A k \in 1..Len(ms) : \A i \in 1..Len(points) : Evaluable(ms[k], points[i])

NoCall == [name |-> "new"]

NoResult == [kind |-> "None"]

(***************************************************************************)
(* The state machine: a source is constructed, then called.                *)
(*   src    the source                                                     *)
(*   op     the last call on it, with its arguments                        *)
(*   result what the last get_B did                                        *)
(***************************************************************************)
Init ==
    /\ src \in InitSources
    /\ op = NoCall
    /\ result = NoResult

Translate(translation) ==
    /\ src' = translate(src, translation)
    /\ InBounds(src')
    /\ op' = [name |-> "translate", translation |-> translation]
    /\ result' = NoResult

Rotate(rotation) ==
    /\ src' = rotate(src, rotation)
    /\ InBounds(src')
    /\ op' = [name |-> "rotate", rotation |-> rotation]
    /\ result' = NoResult

RotateAnchor(rotation, anchor) ==
    /\ src' = rotate_anchor(src, rotation, anchor)
    /\ InBounds(src')
    /\ op' = [name |-> "rotate_anchor", rotation |-> rotation, anchor |-> anchor]
    /\ result' = NoResult

SetPosition(p) ==
    /\ src' = set_position(src, p)
    /\ InBounds(src')
    /\ op' = [name |-> "set_position", position |-> p]
    /\ result' = NoResult

SetOrientation(o) ==
    /\ src' = set_orientation(src, o)
    /\ InBounds(src')
    /\ op' = [name |-> "set_orientation", orientation |-> o]
    /\ result' = NoResult

\* get_B takes &self: the source is read, never written
GetB(points) ==
    /\ EvaluableAt(src, points)
    /\ src' = src
    /\ op' = [name |-> "get_B", points |-> points]
    /\ result' \in get_B(src, points)

Next ==
    \/ \E t \in Translations : Translate(t)
    \/ \E r \in Rotations : Rotate(r)
    \/ \E r \in Rotations, a \in Anchors : RotateAnchor(r, a)
    \/ \E p \in NewPositions : SetPosition(p)
    \/ \E o \in NewOrientations : SetOrientation(o)
    \/ \E pts \in PointLists : GetB(pts)

Spec == Init /\ [][Next]_vars

(***************************************************************************)
(* Notions the claims are stated with.                                     *)
(***************************************************************************)
TransformNames ==
    {"translate", "rotate", "rotate_anchor", "set_position", "set_orientation"}

RECURSIVE Descendants(_)
\* the children of a source and their descendants, in order
Descendants(s) ==
    IF IsMagnet(s) THEN <<>>
    ELSE LET F[k \in 0..Len(s.children)] ==
                 IF k = 0 THEN <<>>
                 ELSE F[k - 1] \o <<s.children[k]>> \o Descendants(s.children[k])
         IN  F[Len(s.children)]

\* the pose (p, q) seen from the frame (P, Q): Q^-1 (p - P) and Q^-1 q
RelativePose(P, Q, p, q) == << QRot(QInv(Q), VSub(p, P)), QMul(QInv(Q), q) >>

\* the poses of the descendants of s relative to the frame of s
RelativePoses(s) ==
    LET ds == Descendants(s)
    IN  [k \in 1..Len(ds) |->
            RelativePose(s.position, s.orientation, ds[k].position, ds[k].orientation)]

HasNestedChild(s) ==
    IsCollection(s) /\ \E k \in 1..Len(s.children) :
        IsCollection(s.children[k]) /\ Len(s.children[k].children) > 0

\* C1: every transform call on a collection leaves the pose of every child
\* (and of every descendant), relative to the collection's frame, as it was:
\* with collection pose (P, Q) and child pose (p, q), Q^-1 (p - P) and
\* Q^-1 q are the same before and after the call.
C1_RelativePosePreserved ==
    [][(IsCollection(src) /\ op'.name \in TransformNames)
         => RelativePoses(src') = RelativePoses(src)]_vars

\* C1 happens: a collection with a nested child, rotated about an anchor
\* that is not its position, after which a child sits off the collection
C1_Witness ==
    /\ HasNestedChild(src)
    /\ op.name = "rotate_anchor"
    /\ op.anchor /= src.position
    /\ src.orientation /= QId
    /\ \E k \in 1..Len(RelativePoses(src)) : RelativePoses(src)[k][1] /= VZero

\* C3: rotate(rotation) gives the state rotate_anchor(rotation, anchor) gives
\* with the source's position as anchor: the position stays, the orientation
\* becomes rotation * orientation, and every child of a collection is
\* rotated about the collection's position.
C3_RotateIsRotateAnchorAtPosition ==
    [][op'.name = "rotate" =>
         /\ src' = rotate_anchor(src, op'.rotation, src.position)
         /\ src'.position = src.position
         /\ src'.orientation = QMul(op'.rotation, src.orientation)
         /\ IsCollection(src) =>
              \A k \in 1..Len(src.children) :
                 src'.children[k] =
                    rotate_anchor(src.children[k], op'.rotation, src.position)]_vars

\* C3 happens: a collection away from the origin, with a child that is not
\* at the collection's position, has been rotated
C3_Witness ==
    /\ op.name = "rotate"
    /\ IsCollection(src)
    /\ src.position /= VZero
    /\ \E k \in 1..Len(src.children) : src.children[k].position /= src.position

\* C4: translate(t) followed by translate(t^-1), and rotate(q) followed by
\* rotate(q^-1), bring the source and every descendant back to the pose held
\* before the pair, so that get_B at any one point gives what it gave before.
C4_InverseTransformRestores ==
    [][/\ op'.name = "translate" =>
            LET back == translate(src', translation_inverse(op'.translation))
            IN  /\ back = src
                /\ \A i \in 1..Len(AllPoints) :
                      EvaluableAt(src, <<AllPoints[i]>>) =>
                         get_B(back, <<AllPoints[i]>>) = get_B(src, <<AllPoints[i]>>)
       /\ op'.name = "rotate" =>
            LET back == rotate(src', QInv(op'.rotation))
            IN  /\ back = src
                /\ \A i \in 1..Len(AllPoints) :
                      EvaluableAt(src, <<AllPoints[i]>>) =>
                         get_B(back, <<AllPoints[i]>>) = get_B(src, <<AllPoints[i]>>)]_vars

\* C4 happens: a collection with children has been translated, and the
\* inverse translation is one of the calls that can follow
C4_Witness ==
    /\ op.name = "translate"
    /\ IsCollection(src)
    /\ Len(src.children) > 1
    /\ translation_inverse(op.translation) \in Translations
    /\ InBounds(translate(src, translation_inverse(op.translation)))

\* C5: on a collection with pose (P, Q), set_position(p) gives the state
\* translate(p - P) gives and set_orientation(o) the state rotate(o Q^-1)
\* gives; afterwards position() = p and orientation() = o, and the same
\* setter called again changes nothing.
C5_SettersAreTransforms ==
    [][IsCollection(src) =>
         /\ op'.name = "set_position" =>
              /\ src' = translate(src, VSub(op'.position, src.position))
              /\ position(src') = op'.position
              /\ set_position(src', op'.position) = src'
         /\ op'.name = "set_orientation" =>
              /\ src' = rotate(src, QMul(op'.orientation, QInv(src.orientation)))
              /\ orientation(src') = op'.orientation
              /\ set_orientation(src', op'.orientation) = src']_vars

\* C5 happens: set_orientation has turned a collection with a child that is
\* not at the collection's position
C5_Witness ==
    /\ op.name = "set_orientation"
    /\ IsCollection(src)
    /\ src.orientation = op.orientation
    /\ src.position /= VZero
    /\ \E k \in 1..Len(src.children) :
          /\ src.children[k].position /= src.position
          /\ src.children[k].orientation /= op.orientation

\* the sum of entry i of the fields vals, over the children
SumOverChildren(vals, i) ==
    LET F[k \in 0..Len(vals)] ==
            IF k = 0 THEN VZero ELSE VAdd(vals[k][i], F[k - 1])
    IN  F[Len(vals)]

\* C2: get_B on a collection gives, whatever the scheduling of the
\* evaluations of the children, one vector per point, and entry i is the sum
\* over the children of entry i of the child's get_B; with no children every
\* entry is the zero vector.  (When a child's get_B gives no vector, neither
\* does the collection's.)
C2_CollectionFieldIsSum ==
    (op.name = "get_B" /\ IsCollection(src)) =>
        LET pts == op.points
            n == Len(src.children)
            outs == [k \in 1..n |-> get_B(src.children[k], pts)]
            vals == [k \in 1..n |-> (CHOOSE o \in outs[k] : TRUE).val]
        IN  IF \A k \in 1..n : \A o \in outs[k] : IsOk(o)
            THEN /\ \A k \in 1..n : Cardinality(outs[k]) = 1
                 /\ IsOk(result)
                 /\ Len(result.val) = Len(pts)
                 /\ \A i \in 1..Len(pts) : result.val[i] = SumOverChildren(vals, i)
                 /\ n = 0 => \A i \in 1..Len(pts) : result.val[i] = VZero
            ELSE ~IsOk(result)

\* C2 happens: a collection of two magnets has given the field at two
\* points, and at one of them both magnets contribute
C2_Witness ==
    /\ op.name = "get_B"
    /\ IsCollection(src)
    /\ Len(src.children) = 2
    /\ Len(op.points) = 2
    /\ IsOk(result)
    /\ \E i \in 1..2 : \A k \in 1..2 :
          \A o \in get_B(src.children[k], op.points) : IsOk(o) /\ o.val[i] /= VZero

\* the magnet m placed at the composition of the pose of the collection c
\* and its stored pose
Composed(c, m) ==
    [m EXCEPT !.position = VAdd(c.position, QRot(c.orientation, m.position)),
              !.orientation = QMul(c.orientation, m.orientation)]

OnlyMagnets(s) ==
    IsCollection(s) /\ \A k \in 1..Len(s.children) : IsMagnet(s.children[k])

\* C6 as claimed: get_B of a collection with pose (P, Q) takes a child with
\* stored pose (p, q) as placed at position P + Q p with orientation Q q.
C6_ChildPlacedAtComposedPose ==
    (op.name = "get_B" /\ OnlyMagnets(src)) =>
        LET placed == [k \in 1..Len(src.children) |-> Composed(src, src.children[k])]
            rs == [k \in 1..Len(placed) |-> magnet_get_B(placed[k], op.points)]
        IN  (\A k \in 1..Len(placed) : \A i \in 1..Len(op.points) :
                Evaluable(placed[k], op.points[i]))
            => result \in collect_and_sum(rs, op.points)

\* C6, amended: get_B of a collection takes every child at its stored pose
\* (p, q); the collection's own pose (P, Q) does not enter the result, which
\* is the one the same children give in a collection at the origin with the
\* identity orientation.
C6_ChildPlacedAtStoredPose ==
    (op.name = "get_B" /\ IsCollection(src)) =>
        /\ get_B(src, op.points) =
              get_B([src EXCEPT !.position = VZero, !.orientation = QId], op.points)
        /\ OnlyMagnets(src) =>
              result \in collect_and_sum(
                  [k \in 1..Len(src.children) |->
                      magnet_get_B(src.children[k], op.points)], op.points)

\* C6 happens: a collection away from the origin and turned has given a
\* field that is not zero
C6_Witness ==
    /\ op.name = "get_B"
    /\ OnlyMagnets(src)
    /\ Len(src.children) > 0
    /\ src.position /= VZero
    /\ src.orientation /= QId
    /\ IsOk(result)
    /\ \E i \in 1..Len(op.points) : result.val[i] /= VZero

\* C7: get_B of a magnet at point i is orientation * local_cyl_B(
\* orientation^-1 * (points[i] - position)): the field vector is rotated
\* back and never translated, so moving the magnet and the points by one
\* translation leaves the result as it is.
C7_MagnetFieldInLocalFrame ==
    (op.name = "get_B" /\ IsMagnet(src)) =>
        LET pts == op.points
            loc == [i \in 1..Len(pts) |->
                      local_cyl_B(QRot(QInv(src.orientation), VSub(pts[i], src.position)),
                                  src.radius, src.height, src.polarization)]
        IN  /\ IF \A i \in 1..Len(pts) : IsOk(loc[i])
               THEN result = Ok([i \in 1..Len(pts) |->
                                    QRot(src.orientation, loc[i].val)])
               ELSE ~IsOk(result)
            /\ \A t \in Translations :
                  get_B(translate(src, t), [i \in 1..Len(pts) |-> VAdd(pts[i], t)])
                     = {result}

\* C7 happens: a magnet away from the origin and turned has given a field
\* that is not zero
C7_Witness ==
    /\ op.name = "get_B"
    /\ IsMagnet(src)
    /\ src.position /= VZero
    /\ src.orientation /= QId
    /\ IsOk(result)
    /\ \E i \in 1..Len(op.points) : result.val[i] /= VZero

\* the point, seen from the magnet m
LocalOf(m, point) == QRot(QInv(m.orientation), VSub(point, m.position))

\* the local point lies on the rim of the magnet: r = radius, |z| = height/2
OnRim(m, lp) ==
    /\ Abs(lp[1]) + Abs(lp[2]) = m.radius
    /\ 2 * Abs(lp[3]) = m.height

\* the local point lies in the magnet: r <= radius, |z| <= height/2
Inside(m, lp) ==
    /\ Abs(lp[1]) + Abs(lp[2]) <= m.radius
    /\ 2 * Abs(lp[3]) <= m.height

\* what cyl_B_cyl gives for the magnet m at the local point lp
SolverCyl(m, lp) ==
    LET rphi == cart2cyl(lp[1], lp[2])
        pt == cart2cyl(m.polarization[1], m.polarization[2])
    IN  cyl_B_cyl(rphi[1], rphi[2] - pt[2], lp[3], m.radius, m.height,
                  pt[1], m.polarization[3])

\* the same, in Cartesian components
SolverCart(m, lp) ==
    LET c == SolverCyl(m, lp).val
        bxy == vec_cyl2cart(c[1], c[2], cart2cyl(lp[1], lp[2])[2])
    IN  <<bxy[1], bxy[2], c[3]>>

\* C8 as claimed: at a local point with r equal to the radius and |z| equal
\* to half the height the field is the zero vector, for every polarization,
\* from cyl_B_cyl and from local_cyl_B, and hence from get_B.
C8_RimFieldIsZero ==
    (op.name = "get_B" /\ IsMagnet(src) /\ IsOk(result)) =>
        \A i \in 1..Len(op.points) :
            LET lp == LocalOf(src, op.points[i])
            IN  OnRim(src, lp) =>
                  /\ SolverCyl(src, lp) = Ok(VZero)
                  /\ local_cyl_B(lp, src.radius, src.height, src.polarization) = Ok(VZero)
                  /\ result.val[i] = VZero

\* C9 as claimed: local_cyl_B adds all three components of the polarization
\* to the solver result exactly when r <= radius and |z| <= height/2, and
\* gives the solver result as it is at every other point.
C9_AddsWholePolarization ==
    (op.name = "get_B" /\ IsMagnet(src) /\ IsOk(result)) =>
        \A i \in 1..Len(op.points) :
            LET lp == LocalOf(src, op.points[i])
                b == local_cyl_B(lp, src.radius, src.height, src.polarization)
            IN  /\ IsOk(b)
                /\ b.val = IF Inside(src, lp)
                           THEN VAdd(SolverCart(src, lp), src.polarization)
                           ELSE SolverCart(src, lp)
                /\ result.val[i] = QRot(src.orientation, b.val)

\* C9, amended: local_cyl_B adds the x and the y component of the
\* polarization to the x and the y component of the solver result exactly
\* when r <= radius and |z| <= height/2, and leaves the z component as the
\* solver gave it; at every other point it gives the solver result as it is.
C9_AddsInPlanePolarization ==
    (op.name = "get_B" /\ IsMagnet(src) /\ IsOk(result)) =>
        \A i \in 1..Len(op.points) :
            LET lp == LocalOf(src, op.points[i])
                b == local_cyl_B(lp, src.radius, src.height, src.polarization)
                pol == src.polarization
            IN  /\ IsOk(b)
                /\ b.val = IF Inside(src, lp)
                           THEN VAdd(SolverCart(src, lp), <<pol[1], pol[2], 0>>)
                           ELSE SolverCart(src, lp)
                /\ result.val[i] = QRot(src.orientation, b.val)

\* C9 happens: a magnet with polarization along x and along z has given the
\* field at a point inside it and at a point outside it
C9_Witness ==
    /\ op.name = "get_B"
    /\ IsMagnet(src)
    /\ IsOk(result)
    /\ src.polarization[1] /= 0
    /\ src.polarization[3] /= 0
    /\ \E i \in 1..Len(op.points) : Inside(src, LocalOf(src, op.points[i]))
    /\ \E i \in 1..Len(op.points) : ~Inside(src, LocalOf(src, op.points[i]))

\* a unit solver called for the magnet m at the local point lp gets an error
\* from cel
SolverFails(m, lp) ==
    LET rn == 2 * (Abs(lp[1]) + Abs(lp[2]))
        zn == 2 * lp[3]
        den == 2 * m.radius
    IN  /\ ~(is_close(rn, den) /\ is_close(Abs(zn), m.height))
        /\ m.polarization[3] /= 0
        /\ ~IsOk(unit_axial_cyl_B_cyl(rn, zn, m.height, den))

\* C10 as claimed: when cel returns an error inside a unit solver, get_B
\* (as cyl_B_cyl, local_cyl_B, local_cyl_B_vec and cyl_B below it) returns
\* Err to its caller and does not panic.
C10_SolverErrorIsReturned ==
    (/\ op.name = "get_B"
     /\ \E k \in 1..Len(Magnets(src)) : \E i \in 1..Len(op.points) :
           SolverFails(Magnets(src)[k], LocalOf(Magnets(src)[k], op.points[i])))
    => result.kind = "Err"

(***************************************************************************)
(* special/cel.rs.  cel works on f64.  Its control flow depends on kc, on  *)
(* the sign of p and on the variables k, kk, em and g of the recurrence;   *)
(* the model carries these on a grid of 1/GridUnit, with the two values    *)
(* of f64 that are no numbers: a result above MaxFinite is the infinity    *)
(* FInf, and FNaN is what inf - inf and 0 * inf give.  Operations round to *)
(* the nearest grid value.  cc, pp and ss only feed the value returned,    *)
(* which the model keeps as its class: a number, or NaN.                   *)
(***************************************************************************)
GridUnit == 16

MaxFinite == 4095

FInf == MaxFinite + 1

FNaN == FInf + 1

\* a local that no statement has written yet
Unset == FNaN + 1

IsFinite(a) == Abs(a) <= MaxFinite

\* a.abs(): the sign is dropped, of the infinities and of NaN as well
FAbs(a) == Abs(a)

\* a + b, for a, b >= 0
FAdd(a, b) ==
    IF a = FNaN \/ b = FNaN THEN FNaN
    ELSE IF a = FInf \/ b = FInf \/ a + b > MaxFinite THEN FInf
    ELSE a + b

\* a * b, for a, b >= 0
FMul(a, b) ==
    IF a = FNaN \/ b = FNaN THEN FNaN
    ELSE IF (a = FInf /\ b = 0) \/ (b = FInf /\ a = 0) THEN FNaN
    ELSE IF a = FInf \/ b = FInf THEN FInf
    ELSE LET v == (2 * a * b + GridUnit) \div (2 * GridUnit)
         IN  IF v > MaxFinite THEN FInf ELSE v

\* 2.0 * a.sqrt(), for a >= 0: the doubling is exact in f64, so the result
\* is rounded once
FTwoSqrt(a) ==
    IF a = FNaN THEN FNaN
    ELSE IF a = FInf THEN FInf
    ELSE LET n == 4 * a * GridUnit
             r == CHOOSE x \in 0..(a + GridUnit + 1) :
                      x * x <= n /\ n < (x + 1) * (x + 1)
             v == IF n - r * r > r THEN r + 1 ELSE r
         IN  IF v > MaxFinite THEN FInf ELSE v

\* (a - b).abs(), for a, b >= 0
FAbsDiff(a, b) ==
    IF a = FNaN \/ b = FNaN \/ (a = FInf /\ b = FInf) THEN FNaN
    ELSE IF a = FInf \/ b = FInf THEN FInf
    ELSE Abs(a - b)

\* a > b: false when an operand is NaN
FGreater(a, b) == a /= FNaN /\ b /= FNaN /\ a > b

\* a <= b: false when an operand is NaN
FLessEq(a, b) == a /= FNaN /\ b /= FNaN /\ a <= b

\* constants::ERRTOL is 1 / ERRTOL_inv
ERRTOL_inv == 1000000

\* g * ERRTOL, for g >= 0
TimesERRTOL(g) == IF IsFinite(g) THEN g \div ERRTOL_inv ELSE g

\* the test of the while loop of cel
cel_continues(g, k) == FGreater(FAbsDiff(g, k), TimesERRTOL(g))

\* the class of (PI / 2.0) * (ss + cc * em) / (em * (em + pp)): with em
\* infinite or NaN the quotient is inf / inf or holds a NaN
cel_value(em) == IF IsFinite(em) THEN "number" ELSE "NaN"

\* the locals of a call of cel before its first statement
cel_call(kc, p, c, s) ==
    [name |-> "cel", pc |-> "entry", kc |-> kc, p |-> p, c |-> c, s |-> s,
     branch |-> "none", k |-> Unset, kk |-> Unset, em |-> Unset, g |-> Unset,
     n |-> 0]

\* lines 18-45: k = kc.abs(); cc, pp, ss by the sign of p; em = 1.0;
\* g = em; em = k + em; kk = k
cel_init(f) ==
    LET k == FAbs(f.kc)
    IN  [f EXCEPT !.pc = "loop", !.k = k, !.g = GridUnit,
                  !.branch = IF f.p /= FNaN /\ f.p > 0 THEN "p > 0" ELSE "p <= 0",
                  !.em = FAdd(k, GridUnit), !.kk = k]

\* lines 48-56, one turn of the loop
cel_iterate(f) ==
    LET k == FTwoSqrt(f.kk)
    IN  [f EXCEPT !.k = k, !.kk = FMul(k, f.em), !.g = f.em,
                  !.em = FAdd(k, f.em), !.n = f.n + 1]

\* the arguments cel is called with: kc of either sign, zero, large enough
\* for kk = k * em to overflow, infinite and NaN; p of either sign and zero
CelKc ==
    { 0, 1, 4, GridUnit, -GridUnit, 4 * GridUnit, 64 * GridUnit, MaxFinite,
      FInf, FNaN }

CelP == { -GridUnit, 0, GridUnit }

CelCS == { 0, GridUnit }

InitCel ==
    /\ src = SourceCollection_default
    /\ op \in { cel_call(kc, p, c, s) : kc \in CelKc, p \in CelP, c \in CelCS, s \in CelCS }
    /\ result = NoResult

\* lines 14-16: kc == 0.0 is an error, before any other statement
CelReject ==
    /\ op.name = "cel" /\ op.pc = "entry"
    /\ cel_fails(op.kc * op.kc)
    /\ op' = [op EXCEPT !.pc = "done"]
    /\ result' = Err("fn cel: kc cannot be zero.")
    /\ UNCHANGED src

CelInitialise ==
    /\ op.name = "cel" /\ op.pc = "entry"
    /\ ~cel_fails(op.kc * op.kc)
    /\ op' = cel_init(op)
    /\ UNCHANGED <<src, result>>

\* line 47, the test holds: the body runs.  The loop has no other exit.
CelIterate ==
    /\ op.name = "cel" /\ op.pc = "loop"
    /\ cel_continues(op.g, op.k)
    /\ op' = cel_iterate(op)
    /\ UNCHANGED <<src, result>>

\* line 47, the test fails; line 59
CelReturn ==
    /\ op.name = "cel" /\ op.pc = "loop"
    /\ ~cel_continues(op.g, op.k)
    /\ op' = [op EXCEPT !.pc = "done"]
    /\ result' = Ok(cel_value(op.em))
    /\ UNCHANGED src

NextCel == CelReject \/ CelInitialise \/ CelIterate \/ CelReturn

SpecCel == InitCel /\ [][NextCel]_vars

\* C12: cel with kc == 0 returns its error whatever p, c and s are, before
\* any local is initialised and before any turn of the loop.
C12_ZeroKcIsRejectedAtEntry ==
    (op.name = "cel" /\ op.kc = 0 /\ op.pc /= "entry") =>
        /\ op.pc = "done"
        /\ result = Err("fn cel: kc cannot be zero.")
        /\ op.k = Unset /\ op.kk = Unset /\ op.em = Unset /\ op.g = Unset
        /\ op.branch = "none"
        /\ op.n = 0

\* C12 happens: cel has returned for kc == 0 with p, c and s not zero
C12_Witness ==
    /\ op.name = "cel" /\ op.pc = "done"
    /\ op.kc = 0 /\ op.p < 0 /\ op.c /= 0 /\ op.s /= 0
    /\ ~IsOk(result)

\* C13 as claimed: cel with p == 0 and kc /= 0 returns the error
\* InvalidShapeParameter and no number.
C13_ZeroPIsRejected ==
    (op.name = "cel" /\ op.pc = "done" /\ op.p = 0 /\ op.kc /= 0) =>
        result = Err("InvalidShapeParameter")

\* the loop was left with |g - k| <= g * ERRTOL
cel_converged(f) == FLessEq(FAbsDiff(f.g, f.k), TimesERRTOL(f.g))

\* C14 as claimed: for kc /= 0 the loop of cel ends either with the
\* tolerance |g - k| <= g * ERRTOL met or at an iteration cap, with the error
\* ConvergenceFailure.
C14_LoopEndsConvergedOrCapped ==
    (op.name = "cel" /\ op.pc = "done" /\ op.kc /= 0) =>
        \/ IsOk(result) /\ cel_converged(op)
        \/ result = Err("ConvergenceFailure")

(***************************************************************************)
(* Claims on the sources, checked under Spec.                              *)
(***************************************************************************)
\* C11 as claimed: a magnet with radius <= 0 or height <= 0 is rejected at
\* construction, so that get_B is never evaluated on a magnet whose radius
\* or height is not positive.
C11_GeometryIsPositiveAtGetB ==
    (op.name = "get_B" /\ Len(op.points) > 0) =>
        \A k \in 1..Len(Magnets(src)) :
            Magnets(src)[k].radius > 0 /\ Magnets(src)[k].height > 0

\* C22: rotate_anchor(rotation, anchor) on a collection gives every child,
\* and so every descendant, the same rotation and the same anchor, and
\* applies them to the collection: each position becomes rotation *
\* (position - anchor) + anchor and each orientation rotation * orientation,
\* so every offset between the collection and its descendants, and between
\* two descendants, is turned by the one rotation.
C22_RotateAnchorReachesEveryDescendant ==
    [][(IsCollection(src) /\ op'.name = "rotate_anchor") =>
          LET r == op'.rotation
              a == op'.anchor
              ds == Descendants(src)
              es == Descendants(src')
              Turned(p) == VAdd(QRot(r, VSub(p, a)), a)
          IN  /\ src'.position = Turned(src.position)
              /\ src'.orientation = QMul(r, src.orientation)
              /\ Len(src'.children) = Len(src.children)
              /\ \A k \in 1..Len(src.children) :
                    src'.children[k] = rotate_anchor(src.children[k], r, a)
              /\ Len(es) = Len(ds)
              /\ \A k \in 1..Len(ds) :
                    /\ es[k].position = Turned(ds[k].position)
                    /\ es[k].orientation = QMul(r, ds[k].orientation)
                    /\ VSub(es[k].position, src'.position) =
                          QRot(r, VSub(ds[k].position, src.position))
                    /\ \A j \in 1..Len(ds) :
                          VSub(es[k].position, es[j].position) =
                             QRot(r, VSub(ds[k].position, ds[j].position))]_vars

\* C22 happens: a collection with a nested collection has been rotated about
\* an anchor that is neither its position nor that of every descendant
C22_Witness ==
    /\ op.name = "rotate_anchor"
    /\ HasNestedChild(src)
    /\ op.anchor /= src.position
    /\ \E k \in 1..Len(Descendants(src)) :
          /\ Descendants(src)[k].position /= op.anchor
          /\ Descendants(src)[k].position /= src.position

\* C27 as claimed: whenever a point passes the rim guard of cyl_B_cyl and
\* the axial solver or the general branch of the diametric solver is
\* reached, (z' + z0)^2 + (1 - r')^2 and (z' - z0)^2 + (1 - r')^2 are both
\* non-zero, so cel never gets kc = 0 and neither is a zero divisor.
C27_SolverArgumentsAreNonZero ==
    op.name = "get_B" =>
        \A k \in 1..Len(Magnets(src)) : \A i \in 1..Len(op.points) :
            LET m == Magnets(src)[k]
                lp == LocalOf(m, op.points[i])
                rn == 2 * (Abs(lp[1]) + Abs(lp[2]))
                zn == 2 * lp[3]
                den == 2 * m.radius
                z0 == m.height
                rim == is_close(rn, den) /\ is_close(Abs(zn), z0)
                pol_r == cart2cyl(m.polarization[1], m.polarization[2])[1]
                reached == \/ m.polarization[3] /= 0
                           \/ pol_r /= 0 /\ ~small_radius(rn, den)
            IN  (~rim /\ reached) =>
                    /\ (zn + z0) * (zn + z0) + (den - rn) * (den - rn) /= 0
                    /\ (zn - z0) * (zn - z0) + (den - rn) * (den - rn) /= 0

\* C20: on a CylinderMagnet translate changes the position only (position
\* + t), rotate the orientation only (q * orientation), set_position and
\* set_orientation overwrite their own field only, and none of the four
\* changes polarization, radius or height.
C20_MagnetTransformsAreShallow ==
    [][(IsMagnet(src) /\ op'.name \in {"translate", "rotate", "set_position",
                                        "set_orientation"}) =>
          /\ src'.polarization = src.polarization
          /\ src'.radius = src.radius
          /\ src'.height = src.height
          /\ src'.type = src.type
          /\ op'.name = "translate" =>
                /\ src'.position = VAdd(src.position, op'.translation)
                /\ src'.orientation = src.orientation
          /\ op'.name = "rotate" =>
                /\ src'.orientation = QMul(op'.rotation, src.orientation)
                /\ src'.position = src.position
          /\ op'.name = "set_position" =>
                /\ src'.position = op'.position
                /\ src'.orientation = src.orientation
          /\ op'.name = "set_orientation" =>
                /\ src'.orientation = op'.orientation
                /\ src'.position = src.position]_vars

C20_Witness ==
    /\ IsMagnet(src)
    /\ op.name = "rotate"
    /\ src.position /= VZero
    /\ src.orientation /= QId
    /\ src.polarization[1] /= 0

(***************************************************************************)
(* fields/field_cylinder.rs: sum_multiple_cyl_B.                           *)
(***************************************************************************)
\* a test that compares the poses only
poses_equal_length(positions, orientations, radii, heights, pols) ==
    Len(positions) = Len(orientations)

\* lines 286-289: the four comparisons with positions.len()
lengths_equal(positions, orientations, radii, heights, pols) ==
    /\ Len(positions) = Len(orientations)
    /\ Len(positions) = Len(radii)
    /\ Len(positions) = Len(heights)
    /\ Len(positions) = Len(pols)

\* the magnets whose cyl_B a call evaluates: none when the lengths differ,
\* else every one
sum_multiple_evaluates(positions, orientations, radii, heights, pols) ==
    IF lengths_equal(positions, orientations, radii, heights, pols)
    THEN 1..Len(positions)
    ELSE {}

\* a sum_multiple_cyl_B that pairs the magnets with the polarizations in
\* reverse order
sum_multiple_cyl_B_pols_reversed(points, positions, orientations, radii, heights, pols) ==
    IF ~lengths_equal(positions, orientations, radii, heights, pols)
    THEN {Err("fn sum_multiple_cyl_b: Length of input vectors must be equal.")}
    ELSE collect_and_sum(
             [k \in 1..Len(positions) |->
                 cyl_B(points, positions[k], orientations[k], radii[k],
                       heights[k], pols[Len(pols) + 1 - k])],
             points)

\* sum_multiple_cyl_B: the set of outcomes under the schedulings of the
\* per-magnet evaluations
sum_multiple_cyl_B(points, positions, orientations, radii, heights, pols) ==
    IF ~lengths_equal(positions, orientations, radii, heights, pols)
    THEN {Err("fn sum_multiple_cyl_b: Length of input vectors must be equal.")}
    ELSE collect_and_sum(
             [k \in 1..Len(positions) |->
                 cyl_B(points, positions[k], orientations[k], radii[k],
                       heights[k], pols[k])],
             points)

(***************************************************************************)
(* The pure functions, called on their own: one call on inputs drawn from  *)
(* bounded sets.                                                           *)
(***************************************************************************)
\* the first n of the magnets of the pool, by field
FirstN(n, field) ==
    [k \in 1..n |->
        CASE field = "position" -> MagnetPool[k].position
          [] field = "orientation" -> MagnetPool[k].orientation
          [] field = "radius" -> MagnetPool[k].radius
          [] field = "height" -> MagnetPool[k].height
          [] field = "polarization" -> MagnetPool[k].polarization]

\* slice lengths: up to MaxChildren, and no more than the pool holds
SliceLens == { n \in 0..MaxChildren : n <= Len(MagnetPool) }

Idle == [name |-> "idle"]

InitFn ==
    /\ src = SourceCollection_default
    /\ op = Idle
    /\ result = NoResult

SumMultipleCylB(points, np, no, nr, nh, nq) ==
    LET positions == FirstN(np, "position")
        orientations == FirstN(no, "orientation")
        radii == FirstN(nr, "radius")
        heights == FirstN(nh, "height")
        pols == FirstN(nq, "polarization")
    IN  /\ op = Idle
        /\ \A k \in sum_multiple_evaluates(positions, orientations, radii, heights, pols) :
              \A i \in 1..Len(points) : Evaluable(MagnetPool[k], points[i])
        /\ op' = [name |-> "sum_multiple_cyl_B", points |-> points,
                  positions |-> positions, orientations |-> orientations,
                  radii |-> radii, heights |-> heights, pols |-> pols,
                  evaluated |-> sum_multiple_evaluates(positions, orientations,
                                                       radii, heights, pols)]
        /\ result' \in sum_multiple_cyl_B(points, positions, orientations,
                                          radii, heights, pols)
        /\ UNCHANGED src

\* local_cyl_B_vec, line 241: the length above which the map is parallel
ParallelThreshold == 20

takes_parallel_path(points) == Len(points) > ParallelThreshold

\* the orders in which workers may complete the n entries of a parallel
\* map: in index order, in reverse, and the even indices before the odd
Schedules(n) ==
    { [j \in 1..n |-> j],
      [j \in 1..n |-> n + 1 - j],
      [j \in 1..n |-> IF j <= n \div 2 THEN 2 * j ELSE 2 * (j - n \div 2) - 1] }

\* the orders a call of local_cyl_B_vec can evaluate its points in: the
\* iterator's on the sequential path, the workers' on the parallel one
SchedulesFor(points) ==
    IF takes_parallel_path(points) THEN Schedules(Len(points))
                                   ELSE { [j \in 1..Len(points) |-> j] }

\* a map that collects the entries in the order they complete
local_cyl_B_vec_as_completed(points, radius, height, pol, order) ==
    LET n == Len(points)
        rs == [j \in 1..n |->
                  expect(local_cyl_B(points[order[j]], radius, height, pol),
                         "called Result::unwrap() on an Err value")]
    IN  IF AllOk(rs) THEN Ok([j \in 1..n |-> rs[j].val]) ELSE FirstNotOk(rs)

\* local_cyl_B_vec when entry order[j] is the j-th to be evaluated: collect
\* puts each value at the index of its point; the first unwrap to fail
\* panics
local_cyl_B_vec_scheduled(points, radius, height, pol, order) ==
    LET n == Len(points)
        rs == [j \in 1..n |->
                  expect(local_cyl_B(points[order[j]], radius, height, pol),
                         "called Result::unwrap() on an Err value")]
        done(i) == CHOOSE j \in 1..n : order[j] = i
    IN  IF AllOk(rs) THEN Ok([i \in 1..n |-> rs[done(i)].val])
                     ELSE FirstNotOk(rs)

\* benches/bench.rs, generate_local_cyl_b_test_data: n points, cycling
\* through the test points
Cycle(seq, n) == [i \in 1..n |-> seq[((i - 1) % Len(seq)) + 1]]

\* the sizes of the point lists: empty, one, a few, and either side of the
\* threshold
VecLens == {0, 1, MaxPoints, ParallelThreshold, ParallelThreshold + 1}

\* a magnet's shape in its own frame
InOwnFrame(m) == [m EXCEPT !.position = VZero, !.orientation = QId]

LocalCylBVec(n, k, order) ==
    LET points == Cycle(AllPoints, n)
        m == MagnetPool[k]
    IN  /\ op = Idle
        /\ order \in SchedulesFor(points)
        /\ \A i \in 1..n : Evaluable(InOwnFrame(m), points[i])
        /\ op' = [name |-> "local_cyl_B_vec", points |-> points,
                  radius |-> m.radius, height |-> m.height,
                  pol |-> m.polarization, order |-> order,
                  path |-> IF takes_parallel_path(points) THEN "parallel"
                                                          ELSE "sequential"]
        /\ result' = local_cyl_B_vec_scheduled(points, m.radius, m.height,
                                               m.polarization, order)
        /\ UNCHANGED src

\* the positions and vectors of the frame conversions
FramePositions == { VZero, <<1, 0, 0>>, <<0, -1, 2>> }

FrameVectors == { <<1, 0, 1>>, <<0, 2, 0>>, <<0, 0, 1>> }

LocalPoint(point, position_, orientation_) ==
    /\ op = Idle
    /\ op' = [name |-> "local_point", point |-> point,
              position |-> position_, orientation |-> orientation_]
    /\ result' = Ok(local_point(point, position_, orientation_))
    /\ UNCHANGED src

GlobalVector(vector, orientation_) ==
    /\ op = Idle
    /\ op' = [name |-> "global_vector", vector |-> vector,
              orientation |-> orientation_]
    /\ result' = Ok(global_vector(vector, orientation_))
    /\ UNCHANGED src

\* the results a child's get_B can hand to the collection's collect: a
\* field per point, or one of the errors of the crate
ChildResults(points) ==
    { Ok([i \in 1..Len(points) |-> <<1, 0, 2>>]),
      Ok([i \in 1..Len(points) |-> <<0, -1, 1>>]),
      Err("fn cel: kc cannot be zero."),
      Err("fn sum_multiple_cyl_b: Length of input vectors must be equal.") }

\* the sequences of at most n elements of a set
SeqsUpTo(S, n) == UNION { [1..k -> S] : k \in 0..n }

\* impl_field_collection, from the collect on: the children's results are
\* gathered and summed
CollectFields(points, rs) ==
    /\ op = Idle
    /\ op' = [name |-> "collect", points |-> points, results |-> rs]
    /\ result' \in collect_and_sum(rs, points)
    /\ UNCHANGED src

\* SourceCollection::eq: the poses, the lengths, and every child of self
\* equal to some child of other
collection_eq(a, b) ==
    /\ a.position = b.position
    /\ a.orientation = b.orientation
    /\ Len(a.children) = Len(b.children)
    /\ \A i \in 1..Len(a.children) :
          \E j \in 1..Len(b.children) : a.children[i] = b.children[j]

\* the collections compared: two magnets, in any order and number
EqCollections ==
    { SourceCollection_new(P, QId, kids) :
        P \in { VZero, <<1, 0, 0>> },
        kids \in SeqsUpTo({MagnetPool[1], MagnetPool[2]}, MaxChildren) }

CollectionEq(a, b) ==
    /\ op = Idle
    /\ op' = [name |-> "eq", a |-> a, b |-> b]
    /\ result' = collection_eq(a, b)
    /\ UNCHANGED src

(***************************************************************************)
(* The unit solvers by their steps: the branch taken, the routines called  *)
(* and the divisors used.  A dimensionless quantity is its numerator over  *)
(* den (r' = r / den), a square its numerator over den * den; a divisor is *)
(* listed with the numerator that decides whether it is zero.              *)
(***************************************************************************)
\* unit_diametric_cyl_B_cyl, line 67
diametric_branch(r, den) == IF small_radius(r, den) THEN "taylor" ELSE "general"

\* a general branch that divides by r' - 1 whatever it is
diametric_rm_always_divides(r, den) ==
    LET rm == r - den
    IN  [argc |-> [num |-> -4 * r * den, den |-> rm * rm],
         one_over_rm |-> [num |-> den, den |-> rm],
         divisors |-> { [name |-> "rm2", num |-> rm * rm],
                        [name |-> "rm", num |-> rm] }]

\* lines 111-115: argc and one_over_rm, and the divisions made for them
diametric_rm_case(r, den) ==
    LET rm == r - den
    IN  IF rm = 0
        THEN [argc |-> [literal |-> "1e16"],
              one_over_rm |-> [num |-> 0, den |-> 1],
              divisors |-> {}]
        ELSE [argc |-> [num |-> -4 * r * den, den |-> rm * rm],
              one_over_rm |-> [num |-> den, den |-> rm],
              divisors |-> { [name |-> "rm2", num |-> rm * rm],
                             [name |-> "rm", num |-> rm] }]

\* the routines of special/ the solver calls: none on lines 69-98; ellipk,
\* ellipe and cel on lines 118-123
diametric_calls(r, den) ==
    IF diametric_branch(r, den) = "taylor" THEN {}
    ELSE {"ellipk", "ellipe", "cel"}

\* the divisors of the solver: zpp = zp2 + 1, zmm = zm2 + 1, their powers
\* and roots on lines 76-97 (and the literals 4.0, 8.0, 64.0); ap2, am2, rm2,
\* rm, r2, ap, am and r on lines 108-139
diametric_divisors(r, z, z0, den) ==
    LET zp == z + z0
        zm == z - z0
        zpp == zp * zp + den * den
        zmm == zm * zm + den * den
        rm == r - den
        ap2 == zp * zp + rm * rm
        am2 == zm * zm + rm * rm
    IN  IF diametric_branch(r, den) = "taylor"
        THEN { [name |-> nm, num |-> zpp] :
                 nm \in {"sqrt_p", "zpp", "zpp2", "zpp3", "zpp4", "zpp5"} }
             \cup { [name |-> nm, num |-> zmm] :
                      nm \in {"sqrt_m", "zmm", "zmm2", "zmm3", "zmm4", "zmm5"} }
        ELSE { [name |-> "ap2", num |-> ap2], [name |-> "am2", num |-> am2],
               [name |-> "ap", num |-> ap2], [name |-> "am", num |-> am2],
               [name |-> "r2", num |-> r * r], [name |-> "r", num |-> r] }
             \cup diametric_rm_case(r, den).divisors

\* the solvers cyl_B_cyl calls, lines 167-184: none at the rim; the axial one
\* if pol_z is not zero; the diametric one if pol_r is not zero and the
\* expect on the axial result has not panicked
cyl_B_cyl_invokes(r, z, radius, height, pol_r, pol_z) ==
    LET den == 2 * radius
        rn == 2 * r
        zn == 2 * z
    IN  IF is_close(rn, den) /\ is_close(Abs(zn), height) THEN {}
        ELSE (IF pol_z /= 0 THEN {"unit_axial_cyl_B_cyl"} ELSE {})
             \cup (IF /\ pol_r /= 0
                      /\ (pol_z = 0 \/ IsOk(unit_axial_cyl_B_cyl(rn, zn, height, den)))
                   THEN {"unit_diametric_cyl_B_cyl"} ELSE {})

\* the denominators 2 * radius of the solver calls: on either side of
\* r' = 1/20 for r = 1 and r = 2, and small
DiametricDens == {2, 19, 20, 21, 40, 41}

UnitDiametric(r, phi, z, z0, den) ==
    /\ op = Idle
    /\ diametric_branch(r, den) = "general" =>
          /\ (z + z0) * (z + z0) + (r - den) * (r - den) /= 0
          /\ (z - z0) * (z - z0) + (r - den) * (r - den) /= 0
    /\ op' = [name |-> "unit_diametric_cyl_B_cyl",
              r |-> r, phi |-> phi, z |-> z, z0 |-> z0, den |-> den,
              branch |-> diametric_branch(r, den),
              calls |-> diametric_calls(r, den),
              divisors |-> diametric_divisors(r, z, z0, den),
              rm_case |-> diametric_rm_case(r, den)]
    /\ result' = unit_diametric_cyl_B_cyl(r, phi, z, z0, den)
    /\ UNCHANGED src

CylBCyl(r, phi, z, radius, height, pol_r, pol_z) ==
    /\ op = Idle
    /\ ("unit_diametric_cyl_B_cyl" \in cyl_B_cyl_invokes(r, z, radius, height,
                                                         pol_r, pol_z)
        /\ ~small_radius(2 * r, 2 * radius)) =>
          /\ (2 * z + height) * (2 * z + height)
                + (2 * r - 2 * radius) * (2 * r - 2 * radius) /= 0
          /\ (2 * z - height) * (2 * z - height)
                + (2 * r - 2 * radius) * (2 * r - 2 * radius) /= 0
    /\ op' = [name |-> "cyl_B_cyl", r |-> r, phi |-> phi, z |-> z,
              radius |-> radius, height |-> height,
              pol_r |-> pol_r, pol_z |-> pol_z,
              invokes |-> cyl_B_cyl_invokes(r, z, radius, height, pol_r, pol_z)]
    /\ result' = cyl_B_cyl(r, phi, z, radius, height, pol_r, pol_z)
    /\ UNCHANGED src

NextFn ==
    \/ \E points \in PointLists : \E np, no, nr, nh, nq \in SliceLens :
          SumMultipleCylB(points, np, no, nr, nh, nq)
    \/ \E n \in VecLens : \E k \in 1..Len(MagnetPool) :
          \E order \in Schedules(n) \cup { [j \in 1..n |-> j] } :
             LocalCylBVec(n, k, order)
    \/ \E i \in 1..Len(AllPoints) : \E position_ \in FramePositions :
          \E orientation_ \in Quats :
             LocalPoint(AllPoints[i], position_, orientation_)
    \/ \E vector \in FrameVectors : \E orientation_ \in Quats :
          GlobalVector(vector, orientation_)
    \/ \E n \in 0..MaxPoints :
          \E rs \in SeqsUpTo(ChildResults(Cycle(AllPoints, n)), MaxChildren) :
             CollectFields(Cycle(AllPoints, n), rs)
    \/ \E a, b \in EqCollections : CollectionEq(a, b)
    \/ \E den \in DiametricDens : \E r \in {0, 1, 2, den} :
          \E phi \in 0..3 : \E z \in {0, 2} :
             UnitDiametric(r, phi, z, 2, den)
    \/ \E r \in 0..2 : \E phi \in 0..1 : \E z \in -1..1 :
          \E height \in {2, -2} : \E pol_r \in {0, 1} : \E pol_z \in {0, 2} :
             CylBCyl(r, phi, z, 1, height, pol_r, pol_z)

SpecFn == InitFn /\ [][NextFn]_vars

(***************************************************************************)
(* Claims on the pure functions, checked under SpecFn.                     *)
(***************************************************************************)
\* C15: sum_multiple_cyl_B returns its length error, and evaluates no
\* magnet, whenever the five lists do not all have one length; when they
\* do, it does not return that error.
C15_LengthMismatchIsAnError ==
    op.name = "sum_multiple_cyl_B" =>
        LET n == Len(op.positions)
            equal == /\ Len(op.orientations) = n /\ Len(op.radii) = n
                     /\ Len(op.heights) = n /\ Len(op.pols) = n
            error == Err("fn sum_multiple_cyl_b: Length of input vectors must be equal.")
        IN  /\ ~equal => result = error /\ op.evaluated = {}
            /\ equal => result /= error /\ op.evaluated = 1..n

C15_Witness ==
    /\ op.name = "sum_multiple_cyl_B"
    /\ Len(op.positions) = 2 /\ Len(op.orientations) = 2
    /\ Len(op.radii) = 2 /\ Len(op.heights) = 2 /\ Len(op.pols) = 1
    /\ Len(op.points) > 0
    /\ result.kind = "Err"

\* C17: local_cyl_B_vec takes the sequential path up to 20 points and the
\* parallel one above; on either, under every order of evaluation, and when
\* no entry fails, it returns one vector per point, entry i being
\* local_cyl_B of point i.
C17_VecIsTheMapOnEitherPath ==
    op.name = "local_cyl_B_vec" =>
        LET n == Len(op.points)
            each == [i \in 1..n |->
                        local_cyl_B(op.points[i], op.radius, op.height, op.pol)]
        IN  /\ op.path = (IF n > ParallelThreshold THEN "parallel" ELSE "sequential")
            /\ op.path = "sequential" => op.order = [j \in 1..n |-> j]
            /\ (\A i \in 1..n : IsOk(each[i])) =>
                  /\ IsOk(result)
                  /\ Len(result.val) = n
                  /\ \A i \in 1..n : result.val[i] = each[i].val
            /\ result = local_cyl_B_vec(op.points, op.radius, op.height, op.pol)

C17_Witness ==
    /\ op.name = "local_cyl_B_vec"
    /\ op.path = "parallel"
    /\ op.order[1] /= 1
    /\ IsOk(result)
    /\ Len(result.val) = ParallelThreshold + 1
    /\ result.val[1] /= result.val[2]

\* C19: a point taken to the local frame and back (rotated by the
\* orientation, moved by the position) is the point; a vector taken to the
\* global frame and turned back by the inverse orientation is the vector.
C19_FrameRoundTrip ==
    /\ op.name = "local_point" =>
          VAdd(QRot(op.orientation, result.val), op.position) = op.point
    /\ op.name = "global_vector" =>
          QRot(QInv(op.orientation), result.val) = op.vector

C19_Witness ==
    /\ op.name = "local_point"
    /\ op.position /= VZero
    /\ QMul(op.orientation, op.orientation) /= QId
    /\ op.orientation /= QId
    /\ result.val /= op.point

(***************************************************************************)
(* The parallel loops of a collection, one child at a time.                *)
(* impl_transform_collection!: par_iter_mut().for_each hands each child to *)
(* one closure call, in any order; the collection's own pose is assigned   *)
(* after the loop.  impl_field_collection!: par_iter().map reads each      *)
(* child; get_B takes &self, so two calls can be in progress at once.      *)
(* The update or the field of one child is one step: a child that is a     *)
(* collection runs the same loop within it.                                *)
(*   src    the source                                                     *)
(*   op     the call in progress: its arguments and locals, the source at  *)
(*          the call (pre), the children still to visit (pending)          *)
(*   result what the get_B calls returned                                  *)
(***************************************************************************)
ChildIndices(s) == IF IsMagnet(s) THEN {} ELSE 1..Len(s.children)

\* the frame of a transform call on a collection
transform_frame(s, name) ==
    [name |-> name, pc |-> "loop", pre |-> s, pending |-> ChildIndices(s),
     order |-> <<>>]

\* what the closure of the loop does to child k; rotate and set_orientation
\* read self.position when the closure runs
child_update(s, f, k) ==
    CASE f.name \in {"translate", "set_position"} ->
             translate(s.children[k], f.translation)
      [] f.name \in {"rotate", "set_orientation"} ->
             rotate_anchor(s.children[k], f.rotation, s.position)
      [] f.name = "rotate_anchor" ->
             rotate_anchor(s.children[k], f.rotation, f.anchor)

\* a closure that reaches the first child as well as its own
write_child_and_first(s, f, k) ==
    [s EXCEPT !.children[k] = child_update(s, f, k),
              !.children[1] = child_update(s, f, 1)]

\* par_iter_mut: the closure holds the one &mut to child k
write_child(s, f, k) ==
    [s EXCEPT !.children[k] = child_update(s, f, k)]

\* the assignments after the loop
write_own_pose(s, f) ==
    CASE f.name = "translate" ->
             [s EXCEPT !.position = transform_point(f.translation, s.position)]
      [] f.name = "set_position" -> [s EXCEPT !.position = f.position]
      [] f.name = "rotate" ->
             [s EXCEPT !.orientation = QMul(f.rotation, s.orientation)]
      [] f.name = "set_orientation" -> [s EXCEPT !.orientation = f.orientation]
      [] f.name = "rotate_anchor" ->
             LET p == rotate_anchor_pose(s.position, s.orientation,
                                         f.rotation, f.anchor)
             IN  [s EXCEPT !.position = p[1], !.orientation = p[2]]

\* the frame of a get_B call
field_frame(s, points) ==
    [points |-> points, pending |-> ChildIndices(s),
     b_fields |-> [k \in ChildIndices(s) |-> NoResult], returned |-> FALSE]

\* the points of the second of two concurrent get_B calls
OtherPoints == << AllPoints[2] >>

\* the sources of the loops: those of the construction and a collection
\* whose second magnet, of negative height, fails at the first point
ParSources ==
    InitSources
    \cup { SourceCollection_new(VZero, QId,
              << MagnetPool[1], magnet_translate(MagnetPool[3], <<1, 0, 0>>) >>) }

InitPar ==
    /\ src \in ParSources
    /\ op = Idle
    /\ result = NoResult

ParTranslate(translation) ==
    /\ op = Idle /\ IsCollection(src)
    /\ op' = transform_frame(src, "translate") @@ [translation |-> translation]
    /\ UNCHANGED <<src, result>>

ParSetPosition(position_) ==
    /\ op = Idle /\ IsCollection(src)
    /\ op' = transform_frame(src, "set_position")
                @@ [position |-> position_,
                    translation |-> VSub(position_, src.position)]
    /\ UNCHANGED <<src, result>>

ParRotate(rotation) ==
    /\ op = Idle /\ IsCollection(src)
    /\ op' = transform_frame(src, "rotate") @@ [rotation |-> rotation]
    /\ UNCHANGED <<src, result>>

ParSetOrientation(orientation_) ==
    /\ op = Idle /\ IsCollection(src)
    /\ op' = transform_frame(src, "set_orientation")
                @@ [orientation |-> orientation_,
                    rotation |-> QMul(orientation_, QInv(src.orientation))]
    /\ UNCHANGED <<src, result>>

ParRotateAnchor(rotation, anchor) ==
    /\ op = Idle /\ IsCollection(src)
    /\ op' = transform_frame(src, "rotate_anchor")
                @@ [rotation |-> rotation, anchor |-> anchor]
    /\ UNCHANGED <<src, result>>

\* one closure call of par_iter_mut().for_each
ParChild(k) ==
    /\ op.name \in TransformNames /\ op.pc = "loop"
    /\ k \in op.pending
    /\ src' = write_child(src, op, k)
    /\ op' = [op EXCEPT !.pending = @ \ {k}, !.order = Append(@, k)]
    /\ UNCHANGED result

\* the statements after the loop
ParFinish ==
    /\ op.name \in TransformNames /\ op.pc = "loop"
    /\ op.pending = {}
    /\ src' = write_own_pose(src, op)
    /\ op' = [op EXCEPT !.pc = "done"]
    /\ UNCHANGED result

\* two get_B calls start on the one source
ReadBegin(points) ==
    /\ op = Idle
    /\ EvaluableAt(src, points) /\ EvaluableAt(src, OtherPoints)
    /\ op' = [name |-> "get_B", pc |-> "loop", pre |-> src,
              calls |-> << field_frame(src, points),
                           field_frame(src, OtherPoints) >>]
    /\ result' = << NoResult, NoResult >>
    /\ UNCHANGED src

\* a read of child k that moves the child to the origin
ReadChild_moving(a, k) ==
    /\ op.name = "get_B" /\ op.pc = "loop"
    /\ k \in op.calls[a].pending
    /\ \E r \in get_B(src.children[k], op.calls[a].points) :
          op' = [op EXCEPT !.calls[a].pending = @ \ {k},
                           !.calls[a].b_fields[k] = r]
    /\ src' = [src EXCEPT !.children[k] = set_position(@, VZero)]
    /\ UNCHANGED result

\* call a evaluates child k: source.get_B(points) through &self
ReadChild(a, k) ==
    /\ op.name = "get_B" /\ op.pc = "loop"
    /\ k \in op.calls[a].pending
    /\ \E r \in get_B(src.children[k], op.calls[a].points) :
          op' = [op EXCEPT !.calls[a].pending = @ \ {k},
                           !.calls[a].b_fields[k] = r]
    /\ UNCHANGED <<src, result>>

\* call a returns: a magnet's cyl_B, or the collect and the net field
ReadFinish(a) ==
    /\ op.name = "get_B" /\ op.pc = "loop"
    /\ op.calls[a].pending = {} /\ ~op.calls[a].returned
    /\ \E o \in (IF IsMagnet(src)
                 THEN {magnet_get_B(src, op.calls[a].points)}
                 ELSE collect_and_sum(op.calls[a].b_fields, op.calls[a].points)) :
          result' = [result EXCEPT ![a] = o]
    /\ op' = [op EXCEPT !.calls[a].returned = TRUE,
                        !.pc = IF \A b \in {1, 2} \ {a} : op.calls[b].returned
                               THEN "done" ELSE "loop"]
    /\ UNCHANGED src

NextPar ==
    \/ \E t \in Translations : ParTranslate(t)
    \/ \E p \in NewPositions : ParSetPosition(p)
    \/ \E r \in Rotations : ParRotate(r)
    \/ \E o \in NewOrientations : ParSetOrientation(o)
    \/ \E r \in Rotations, a \in Anchors : ParRotateAnchor(r, a)
    \/ \E k \in 1..MaxChildren : ParChild(k)
    \/ ParFinish
    \/ \E pts \in PointLists : ReadBegin(pts)
    \/ \E a \in {1, 2}, k \in 1..MaxChildren : ReadChild(a, k)
    \/ \E a \in {1, 2} : ReadFinish(a)

SpecPar == InitPar /\ [][NextPar]_vars

(***************************************************************************)
(* Claims on the parallel loops, checked under SpecPar.                    *)
(***************************************************************************)
\* the call of a frame as one step on the source it started from
Sequentially(f) ==
    CASE f.name = "translate" -> translate(f.pre, f.translation)
      [] f.name = "set_position" -> set_position(f.pre, f.position)
      [] f.name = "rotate" -> rotate(f.pre, f.rotation)
      [] f.name = "set_orientation" -> set_orientation(f.pre, f.orientation)
      [] f.name = "rotate_anchor" -> rotate_anchor(f.pre, f.rotation, f.anchor)

\* C16: get_B leaves the source as it was, whatever it returns, and each
\* of two get_B calls in progress at once returns what it returns alone.
C16_GetBReadsOnly ==
    op.name = "get_B" =>
        /\ src = op.pre
        /\ \A a \in {1, 2} :
              op.calls[a].returned =>
                  result[a] \in get_B(op.pre, op.calls[a].points)

C16_Witness ==
    /\ op.name = "get_B"
    /\ IsCollection(src) /\ Len(src.children) >= 2
    /\ op.calls[1].returned /\ IsOk(result[1])
    /\ op.calls[1].points /= op.calls[2].points
    /\ ~op.calls[2].returned
    /\ op.calls[2].pending /= {}
    /\ op.calls[2].pending /= ChildIndices(src)

\* C18: in a transform of a collection, in whatever order the children are
\* visited, a step writes one child, one that was still to visit, from its
\* pose before the call and with the translation, rotation and anchor the
\* pose of the collection before the call gives; the collection's own pose
\* stays until the loop is over; the source at the end is the one the
\* updates give when applied child after child.
C18_ChildUpdatesAreIndependent ==
    [][(op.name \in TransformNames /\ op.pc = "loop") =>
          LET n == Len(src.children)
              changed == {j \in 1..n : src'.children[j] /= src.children[j]}
              final == Sequentially(op)
          IN  /\ Len(src'.children) = n
              /\ Cardinality(changed) <= 1
              /\ \A j \in changed :
                    /\ j \in op.pending /\ j \notin op'.pending
                    /\ src.children[j] = op.pre.children[j]
              /\ \A j \in 1..n :
                    src'.children[j] = IF j \in op'.pending
                                       THEN op.pre.children[j]
                                       ELSE final.children[j]
              /\ op'.pc = "loop" =>
                    /\ src'.position = op.pre.position
                    /\ src'.orientation = op.pre.orientation
              /\ op'.pc = "done" => src' = final]_vars

C18_Witness ==
    /\ op.name = "rotate"
    /\ op.pc = "done"
    /\ op.order = <<2, 1>>
    /\ src.children[1] /= op.pre.children[1]
    /\ src.children[2] /= op.pre.children[2]
    /\ src.orientation /= op.pre.orientation

(***************************************************************************)
(* Two transforms in a row: translate and rotate, in either order.         *)
(*   src    the source                                                     *)
(*   op     the calls made, with their arguments, and the source before    *)
(*          them (pre)                                                     *)
(***************************************************************************)
InitSeq ==
    /\ src \in ParSources
    /\ op = Idle
    /\ result = NoResult

FirstTranslate(translation) ==
    /\ op = Idle
    /\ src' = translate(src, translation)
    /\ op' = [name |-> "translate", pre |-> src, translation |-> translation]
    /\ UNCHANGED result

FirstRotate(rotation) ==
    /\ op = Idle
    /\ src' = rotate(src, rotation)
    /\ op' = [name |-> "rotate", pre |-> src, rotation |-> rotation]
    /\ UNCHANGED result

ThenRotate(rotation) ==
    /\ op.name = "translate"
    /\ src' = rotate(src, rotation)
    /\ op' = [name |-> "translate, rotate", pre |-> op.pre,
              translation |-> op.translation, rotation |-> rotation]
    /\ UNCHANGED result

ThenTranslate(translation) ==
    /\ op.name = "rotate"
    /\ src' = translate(src, translation)
    /\ op' = [name |-> "rotate, translate", pre |-> op.pre,
              translation |-> translation, rotation |-> op.rotation]
    /\ UNCHANGED result

NextSeq ==
    \/ \E t \in Translations : FirstTranslate(t)
    \/ \E r \in Rotations : FirstRotate(r)
    \/ \E r \in Rotations : ThenRotate(r)
    \/ \E t \in Translations : ThenTranslate(t)

SpecSeq == InitSeq /\ [][NextSeq]_vars

\* C29: translate(t) then rotate(q) leaves a source, magnet or collection,
\* and its descendants in the poses rotate(q) then translate(t) leaves them
\* in; a magnet ends at (position + t, q * orientation) either way.
C29_TranslateAndRotateCommute ==
    /\ op.name = "translate, rotate" =>
          src = translate(rotate(op.pre, op.rotation), op.translation)
    /\ op.name = "rotate, translate" =>
          src = rotate(translate(op.pre, op.translation), op.rotation)
    /\ (op.name \in {"translate, rotate", "rotate, translate"} /\ IsMagnet(src)) =>
          /\ src.position = VAdd(op.pre.position, op.translation)
          /\ src.orientation = QMul(op.rotation, op.pre.orientation)

\* C29 happens: a collection with a nested collection, away from the origin
\* after the translation, has been translated and then rotated
C29_Witness ==
    /\ op.name = "translate, rotate"
    /\ HasNestedChild(src)
    /\ src.position /= VZero
    /\ src /= translate(op.pre, op.translation)
    /\ src /= rotate(op.pre, op.rotation)

\* C23: if a child's get_B returns Err, the collection's get_B returns Err,
\* the error of one of the children, and never a partial sum; it returns Ok
\* only when every child returned Ok.
C23_ChildErrorIsTheCollectionsError ==
    op.name = "collect" =>
        LET rs == op.results
            n == Len(rs)
            errs == {k \in 1..n : rs[k].kind = "Err"}
        IN  /\ errs /= {} =>
                  /\ result.kind = "Err"
                  /\ \E k \in errs : result = rs[k]
            /\ IsOk(result) =>
                  /\ \A k \in 1..n : IsOk(rs[k])
                  /\ Len(result.val) = Len(op.points)
                  /\ \A i \in 1..Len(op.points) :
                        result.val[i] = VSum([k \in 1..n |-> rs[k].val], i, n)

\* C23 happens: a child that returned Ok before one that returned Err
C23_Witness ==
    /\ op.name = "collect"
    /\ Len(op.results) = 2
    /\ Len(op.points) > 0
    /\ IsOk(op.results[1])
    /\ op.results[2].kind = "Err"
    /\ result = op.results[2]

\* C30 as claimed: a == b exactly when b == a, and only if the two have the
\* same position, the same orientation and the same children counted with
\* multiplicity.
C30_EqIsSymmetricAndCounts ==
    op.name = "eq" =>
        LET a == op.a
            b == op.b
            Count(s, m) == Cardinality({i \in 1..Len(s.children) : s.children[i] = m})
        IN  /\ result = collection_eq(b, a)
            /\ result =>
                  /\ a.position = b.position
                  /\ a.orientation = b.orientation
                  /\ \A k \in 1..Len(MagnetPool) :
                        Count(a, MagnetPool[k]) = Count(b, MagnetPool[k])

\* C24: unit_diametric_cyl_B_cyl takes the Taylor branch exactly when
\* r' < 0.05 and the general branch otherwise; on the Taylor branch it calls
\* none of cel, ellipk, ellipe and has no divisor made of r', so a point on
\* the axis (r' = 0) gets Ok and stays clear of the general branch's
\* divisions by r' and r'^2.
C24_TaylorBranchBelowOneTwentieth ==
    op.name = "unit_diametric_cyl_B_cyl" =>
        /\ op.branch = (IF 20 * op.r < op.den THEN "taylor" ELSE "general")
        /\ op.branch = "taylor" =>
              /\ op.calls = {}
              /\ \A d \in op.divisors :
                    /\ d.name \notin {"r", "r2", "rm", "rm2"}
                    /\ d.num /= 0
              /\ IsOk(result)
        /\ op.branch = "general" =>
              /\ op.calls = {"ellipk", "ellipe", "cel"}
              /\ \E d \in op.divisors : d.name = "r2"
        /\ op.r = 0 => (op.branch = "taylor" /\ IsOk(result))

\* C24 happens: a point on the axis has been evaluated
C24_Witness ==
    /\ op.name = "unit_diametric_cyl_B_cyl"
    /\ op.r = 0
    /\ op.branch = "taylor"
    /\ IsOk(result)

\* C25: in the general branch, at r' = 1 the solver takes argc = 1e16 and
\* one_over_rm = 0 and divides by nothing made of r' - 1; at any other r' it
\* takes argc = -4 r' / (r' - 1)^2 and one_over_rm = 1 / (r' - 1): r' - 1 is
\* never a zero divisor.
C25_NoDivisionByZeroAtUnitRadius ==
    (op.name = "unit_diametric_cyl_B_cyl" /\ op.branch = "general") =>
        LET rm == op.r - op.den
        IN  /\ rm = 0 =>
                  /\ op.rm_case.argc = [literal |-> "1e16"]
                  /\ op.rm_case.one_over_rm.num = 0
                  /\ \A d \in op.divisors : d.name \notin {"rm", "rm2"}
            /\ rm /= 0 =>
                  /\ op.rm_case.argc = [num |-> -4 * op.r * op.den, den |-> rm * rm]
                  /\ op.rm_case.one_over_rm = [num |-> op.den, den |-> rm]
            /\ \A d \in op.divisors : d.name \in {"rm", "rm2"} => d.num /= 0

\* C25 happens: the general branch has been taken at r' = 1
C25_Witness ==
    /\ op.name = "unit_diametric_cyl_B_cyl"
    /\ op.branch = "general"
    /\ op.r = op.den
    /\ IsOk(result)

\* C26 as claimed: past the rim guard cyl_B_cyl invokes the axial solver if
\* and only if pol_z is not zero and the diametric solver if and only if
\* pol_r is not zero; with both zero it returns the zero vector and invokes
\* no solver.
C26_SolversFollowThePolarization ==
    (/\ op.name = "cyl_B_cyl"
     /\ ~(2 * op.r = 2 * op.radius /\ Abs(2 * op.z) = op.height)) =>
        /\ "unit_axial_cyl_B_cyl" \in op.invokes <=> op.pol_z /= 0
        /\ "unit_diametric_cyl_B_cyl" \in op.invokes <=> op.pol_r /= 0
        /\ (op.pol_z = 0 /\ op.pol_r = 0) =>
              (op.invokes = {} /\ result = Ok(VZero))

\* the collection of the magnets the five lists describe, in their order
CollectionOf(positions, orientations, radii, heights, pols) ==
    SourceCollection_new(VZero, QId,
        [k \in 1..Len(positions) |->
            CylinderMagnet_new(positions[k], orientations[k], pols[k],
                               radii[k], heights[k])])

\* C28: for lists of one length, sum_multiple_cyl_B returns what get_B
\* returns on the SourceCollection of the magnets
\* CylinderMagnet::new(positions[k], orientations[k], pols[k], radii[k],
\* heights[k]) in the same order: entry i is the sum over k of the cyl_B of
\* magnet k at points[i].
C28_SumMultipleIsTheCollectionsField ==
    (/\ op.name = "sum_multiple_cyl_B"
     /\ lengths_equal(op.positions, op.orientations, op.radii, op.heights, op.pols)) =>
        LET n == Len(op.positions)
            c == CollectionOf(op.positions, op.orientations, op.radii,
                              op.heights, op.pols)
            each == [k \in 1..n |->
                        cyl_B(op.points, op.positions[k], op.orientations[k],
                              op.radii[k], op.heights[k], op.pols[k])]
        IN  /\ result \in get_B(c, op.points)
            /\ get_B(c, op.points) =
                  sum_multiple_cyl_B(op.points, op.positions, op.orientations,
                                     op.radii, op.heights, op.pols)
            /\ IsOk(result) =>
                  /\ Len(result.val) = Len(op.points)
                  /\ \A i \in 1..Len(op.points) :
                        result.val[i] = VSum([k \in 1..n |-> each[k].val], i, n)

\* C28 happens: two magnets, both with a field at the point, have been
\* summed
C28_Witness ==
    /\ op.name = "sum_multiple_cyl_B"
    /\ Len(op.positions) = 2 /\ Len(op.orientations) = 2
    /\ Len(op.radii) = 2 /\ Len(op.heights) = 2 /\ Len(op.pols) = 2
    /\ Len(op.points) > 0
    /\ IsOk(result)
    /\ \A k \in 1..2 :
          cyl_B(op.points, op.positions[k], op.orientations[k],
                op.radii[k], op.heights[k], op.pols[k]).val[1] /= VZero

=============================================================================
